---- MODULE Spec2Model ----
(***************************************************************************)
(* Model of src/src/main.cpp: the radix heap (RadixHeap), the two SSSP     *)
(* engines (dijkstra, breaking_sorting_barrier_sssp), the cross-check      *)
(* (verify_results) and the part of main that drives them.                 *)
(*                                                                         *)
(* std::uint64_t is scaled to Width bits: all unsigned arithmetic is taken *)
(* modulo 2^Width, INF is 2^Width - 1 and the heap has Width + 1 buckets   *)
(* (65 buckets for 64 bits in the source).                                 *)
(***************************************************************************)
EXTENDS Integers, Sequences, FiniteSets, Bags, TLC

\* ------------------------------------------------------------------ bounds
Width == 2          \* bits of the unsigned key type (64 in the source)
MaxNodes == 2       \* largest graph.size() explored
MaxEdges == 2       \* largest number of edges of a graph
FairNodes == 2      \* largest graph.size() explored under fairness
FairEdges == 1      \* largest number of edges explored under fairness
WrapNodes == 3      \* graph.size() in the half-range family
WrapEdges == 4      \* largest number of edges in the half-range family
MaxHeap == 3        \* largest number of entries held by a free-standing heap
MaxLen == 2         \* largest length of a vector handed to verify_results
StaleNodes == 2     \* graph.size() in the two-weight family
StaleEdges == 3     \* largest number of edges in the two-weight family

\* ------------------------------------------------------- unsigned integers
RECURSIVE Pow2(_)
Pow2(n) == IF n = 0 THEN 1 ELSE 2 * Pow2(n - 1)

Modulus == Pow2(Width)

\* std::numeric_limits<std::uint64_t>::max()
INF == Modulus - 1

Keys == 0 .. INF

\* unsigned addition of the key type: wraps around
AddWrap(d, w) == (d + w) % Modulus

\* operator^ on unsigned integers
RECURSIVE XOR(_, _)
XOR(x, y) ==
    IF x = 0 /\ y = 0 THEN 0
    ELSE (((x % 2) + (y % 2)) % 2) + 2 * XOR(x \div 2, y \div 2)

\* __builtin_clzll on a non-zero argument: number of leading zero bits
RECURSIVE clzll(_)
clzll(diff) == IF diff >= Pow2(Width - 1) THEN 0 ELSE 1 + clzll(2 * diff)

\* ------------------------------------------------------------- RadixHeap
NumBuckets == Width + 1

bucket_index(diff) ==
    IF diff = 0 THEN 0 ELSE Width - clzll(diff)

\* RadixHeap() : buckets(65), last(0), sz(0)
NewRadixHeap ==
    [buckets |-> [i \in 0 .. NumBuckets - 1 |-> <<>>], last |-> 0, sz |-> 0]

empty(h) == h.sz = 0

size(h) == h.sz

\* push that places by the key itself, not by key ^ last
push_noxor(h, key, value) ==
    LET idx == bucket_index(key)
    IN  [h EXCEPT !.buckets[idx] = Append(@, <<key, value>>),
                  !.sz = @ + 1]

\* push without ++sz
push_nosz(h, key, value) ==
    LET idx == bucket_index(XOR(key, h.last))
    IN  [h EXCEPT !.buckets[idx] = Append(@, <<key, value>>)]

push(h, key, value) ==
    LET idx == bucket_index(XOR(key, h.last))
    IN  [h EXCEPT !.buckets[idx] = Append(@, <<key, value>>),
                  !.sz = @ + 1]

\* the scan run downwards from the top bucket: it stops at the highest
\* non-empty bucket instead of the lowest
ScanFrom_top(h, i) ==
    LET full == { j \in i .. NumBuckets - 1 : h.buckets[j] # <<>> }
    IN  IF full = {} THEN NumBuckets
        ELSE CHOOSE j \in full : \A k \in full : k <= j

\* the scan "while (i < buckets.size() && buckets[i].empty()) ++i" from i
RECURSIVE ScanFrom(_, _)
ScanFrom(h, i) ==
    IF i < NumBuckets /\ h.buckets[i] = <<>> THEN ScanFrom(h, i + 1) ELSE i

\* new_last left at buckets[i][0].first: the minimum loop missing
MinFrom_first(items, k, new_last) == new_last

\* the loop that computes new_last over buckets[i], from position k on
RECURSIVE MinFrom(_, _, _)
MinFrom(items, k, new_last) ==
    IF k > Len(items) THEN new_last
    ELSE MinFrom(items, k + 1,
                 IF items[k][1] < new_last THEN items[k][1] ELSE new_last)

\* the loop that pushes every item of buckets[i] into its new bucket
RECURSIVE Redistribute(_, _, _, _)
Redistribute(bs, items, k, last) ==
    IF k > Len(items) THEN bs
    ELSE LET idx == bucket_index(XOR(items[k][1], last))
         IN  Redistribute([bs EXCEPT ![idx] = Append(@, items[k])],
                          items, k + 1, last)

\* relocate without buckets[i].clear()
relocate_noclear(h) ==
    LET i == ScanFrom(h, 1)
    IN  IF i = NumBuckets
        THEN [heap |-> h, thrown |-> TRUE]
        ELSE LET items == h.buckets[i]
                 new_last == MinFrom(items, 1, items[1][1])
                 moved == Redistribute(h.buckets, items, 1, new_last)
             IN  [heap |-> [h EXCEPT !.last = new_last, !.buckets = moved],
                  thrown |-> FALSE]

\* relocate without the assignment last = new_last
relocate_keeplast(h) ==
    LET i == ScanFrom(h, 1)
    IN  IF i = NumBuckets
        THEN [heap |-> h, thrown |-> TRUE]
        ELSE LET items == h.buckets[i]
                 new_last == MinFrom(items, 1, items[1][1])
                 moved == Redistribute(h.buckets, items, 1, new_last)
             IN  [heap |-> [h EXCEPT !.buckets = [moved EXCEPT ![i] = <<>>]],
                  thrown |-> FALSE]

\* relocate(): thrown is TRUE when it ends in std::logic_error.  Every item
\* of buckets[i] agrees with new_last from bit i-1 upwards and so lands in a
\* bucket below i: the range-for never appends to the vector it walks.
relocate(h) ==
    LET i == ScanFrom(h, 1)
    IN  IF i = NumBuckets
        THEN [heap |-> h, thrown |-> TRUE]
        ELSE LET items == h.buckets[i]
                 new_last == MinFrom(items, 1, items[1][1])
                 moved == Redistribute(h.buckets, items, 1, new_last)
             IN  [heap |-> [h EXCEPT !.last = new_last,
                                     !.buckets = [moved EXCEPT ![i] = <<>>]],
                  thrown |-> FALSE]

NoEntry == <<-1, -1>>

\* pop without --sz
pop_nodec(h) ==
    LET r == IF h.buckets[0] = <<>> THEN relocate(h)
             ELSE [heap |-> h, thrown |-> FALSE]
    IN  IF r.thrown
        THEN [heap |-> r.heap, res |-> NoEntry, thrown |-> TRUE,
              relocated |-> TRUE]
        ELSE LET b0 == r.heap.buckets[0]
             IN  [heap |-> [r.heap EXCEPT
                              !.buckets[0] = SubSeq(b0, 1, Len(b0) - 1)],
                  res |-> b0[Len(b0)],
                  thrown |-> FALSE,
                  relocated |-> (h.buckets[0] = <<>>)]

\* pop with --sz placed before the call of relocate
pop_early_dec(h) ==
    LET h1 == [h EXCEPT !.sz = @ - 1]
        r == IF h1.buckets[0] = <<>> THEN relocate(h1)
             ELSE [heap |-> h1, thrown |-> FALSE]
    IN  IF r.thrown
        THEN [heap |-> r.heap, res |-> NoEntry, thrown |-> TRUE,
              relocated |-> TRUE]
        ELSE LET b0 == r.heap.buckets[0]
             IN  [heap |-> [r.heap EXCEPT
                              !.buckets[0] = SubSeq(b0, 1, Len(b0) - 1)],
                  res |-> b0[Len(b0)],
                  thrown |-> FALSE,
                  relocated |-> (h.buckets[0] = <<>>)]

\* pop that calls relocate() whether or not buckets[0] is empty
pop_always_relocate(h) ==
    LET r == relocate(h)
    IN  IF r.thrown
        THEN [heap |-> r.heap, res |-> NoEntry, thrown |-> TRUE,
              relocated |-> TRUE]
        ELSE LET b0 == r.heap.buckets[0]
             IN  [heap |-> [r.heap EXCEPT
                              !.buckets[0] = SubSeq(b0, 1, Len(b0) - 1),
                              !.sz = @ - 1],
                  res |-> b0[Len(b0)],
                  thrown |-> FALSE,
                  relocated |-> TRUE]

\* pop(): res is the returned pair; thrown is TRUE when relocate threw;
\* relocated is TRUE when the call went through relocate()
pop(h) ==
    LET r == IF h.buckets[0] = <<>> THEN relocate(h)
             ELSE [heap |-> h, thrown |-> FALSE]
    IN  IF r.thrown
        THEN [heap |-> r.heap, res |-> NoEntry, thrown |-> TRUE,
              relocated |-> TRUE]
        ELSE LET b0 == r.heap.buckets[0]
             IN  [heap |-> [r.heap EXCEPT
                              !.buckets[0] = SubSeq(b0, 1, Len(b0) - 1),
                              !.sz = @ - 1],
                  res |-> b0[Len(b0)],
                  thrown |-> FALSE,
                  relocated |-> (h.buckets[0] = <<>>)]

\* ------------------------------------------------------------------ state
VARIABLES
    graph,            \* main: loaded.graph, adjacency lists of [to, weight]
    source,           \* main: source
    pc,               \* position in main / in the engine that is running
    dist,             \* the running engine's dist vector (index 0 .. N-1)
    pq_d,             \* dijkstra: pq, the std::priority_queue, as a bag of pairs
    pq,               \* RadixHeap: buckets, last, sz
    dijkstra_result,  \* main: dijkstra_result.distances
    breaking_result,  \* main: breaking_result.distances
    a,                \* verify_results: first vector, 1-based sequence
    b,                \* verify_results: second vector
    outcome,          \* what verify_results did: returned or threw, and what
    res,              \* the pair returned by the latest RadixHeap::pop
    lastOp,           \* the RadixHeap call made by the last step
    mono,             \* every RadixHeap::push so far had key >= last
    relocated,        \* the latest RadixHeap::pop called relocate()
    expanded,         \* per node, the values d its edges were relaxed from
                      \* by the running engine, in order
    pushes            \* how many pushes the running engine has made

vars == <<graph, source, pc, dist, pq_d, pq, dijkstra_result, breaking_result,
          a, b, outcome, res, lastOp, mono, relocated, expanded, pushes>>

NoOutcome == [kind |-> "none"]

\* ------------------------------------------------- free-standing RadixHeap
HeapValues == {0, 1}

HeapInit ==
    /\ graph = <<>>
    /\ source = 0
    /\ pc = "heap"
    /\ dist = <<>>
    /\ pq_d = EmptyBag
    /\ pq = NewRadixHeap
    /\ dijkstra_result = <<>>
    /\ breaking_result = <<>>
    /\ a = <<>>
    /\ b = <<>>
    /\ outcome = NoOutcome
    /\ res = NoEntry
    /\ lastOp = "new"
    /\ mono = TRUE
    /\ relocated = FALSE
    /\ expanded = <<>>
    /\ pushes = 0

\* a caller that keeps the documented precondition: key >= last
HeapPush ==
    /\ pc = "heap"
    /\ size(pq) < MaxHeap
    /\ \E key \in Keys, value \in HeapValues :
          /\ key >= pq.last
          /\ pq' = push(pq, key, value)
    /\ lastOp' = "push"
    /\ UNCHANGED <<graph, source, pc, dist, pq_d, dijkstra_result,
                   breaking_result, a, b, outcome, res, mono, relocated,
                   expanded, pushes>>

\* pop() called in any state, also on an empty heap
HeapPop ==
    /\ pc = "heap"
    /\ LET r == pop(pq)
       IN  /\ pq' = r.heap
           /\ res' = IF r.thrown THEN res ELSE r.res
           /\ lastOp' = IF r.thrown THEN "pop_threw" ELSE "pop"
           /\ relocated' = r.relocated
    /\ UNCHANGED <<graph, source, pc, dist, pq_d, dijkstra_result,
                   breaking_result, a, b, outcome, mono, expanded, pushes>>

HeapNext == HeapPush \/ HeapPop

HeapSpec == HeapInit /\ [][HeapNext]_vars

\* ---------------------------------------------------------------- graphs
\* A std::vector is a sequence: element i of the vector is At(vec, i).
At(vec, i) == vec[i + 1]

\* weights explored: the smallest and the largest, and the top bit alone
HalfRange == Pow2(Width - 1)

Weights == {0, 1, HalfRange, INF}

EdgeLists(n, ws, maxE) ==
    UNION { [1 .. k -> (0 .. n - 1) \X (0 .. n - 1) \X ws] : k \in 0 .. maxE }

\* read_graph_from_file, lines 63-69: graph[from].push_back({to, w}) for
\* every edge of the list in order, on a graph of n empty adjacency lists
RECURSIVE BuildGraph(_, _, _)
BuildGraph(g, edges, k) ==
    IF k > Len(edges) THEN g
    ELSE BuildGraph(
            [g EXCEPT ![edges[k][1] + 1] =
                 Append(@, [to |-> edges[k][2], weight |-> edges[k][3]])],
            edges, k + 1)

NewGraph(n) == [i \in 1 .. n |-> <<>>]

\* ------------------------------------------------------------ both engines
\* the loop body without its first statement: no entry is taken for stale
stale_never(d, u, ds) == FALSE

\* if (d != dist[u]) continue;
stale(d, u, ds) == d # At(ds, u)

\* ----------------------------------------------------------------- dijkstra
\* dist created with zeros instead of INF
InitDist_zero(g, s) == [i \in 1 .. Len(g) |-> 0]

\* dist created without the assignment dist[source] = 0
InitDist_allinf(g, s) == [i \in 1 .. Len(g) |-> INF]

\* std::vector<std::uint64_t> dist(graph.size(), INF); dist[source] = 0
InitDist(g, s) == [i \in 1 .. Len(g) |-> IF i = s + 1 THEN 0 ELSE INF]

\* std::greater<P> on pairs: pq.top() is the lexicographically least pair
PairLess(p, q) == p[1] < q[1] \/ (p[1] = q[1] /\ p[2] < q[2])

top(bag) ==
    CHOOSE p \in BagToSet(bag) :
        \A q \in BagToSet(bag) : q = p \/ PairLess(p, q)

\* the for loop of dijkstra over graph[u], from edge k on
RECURSIVE dijkstra_relax(_, _, _, _, _)
dijkstra_relax(edges, k, d, ds, q) ==
    IF k > Len(edges) THEN [dist |-> ds, pq |-> q]
    ELSE LET edge == edges[k]
             nd == AddWrap(d, edge.weight)
         IN  IF nd < At(ds, edge.to)
             THEN dijkstra_relax(edges, k + 1, d,
                                 [ds EXCEPT ![edge.to + 1] = nd],
                                 q (+) SetToBag({<<nd, edge.to>>}))
             ELSE dijkstra_relax(edges, k + 1, d, ds, q)

\* ------------------------------------------ breaking_sorting_barrier_sssp
\* the relaxation that only records a node's first candidate: the test
\* dist[edge.to] == INF in place of nd < dist[edge.to]
RECURSIVE bsb_relax_first(_, _, _, _, _, _)
bsb_relax_first(edges, k, d, ds, h, ok) ==
    IF k > Len(edges) THEN [dist |-> ds, pq |-> h, mono |-> ok]
    ELSE LET edge == edges[k]
             nd == AddWrap(d, edge.weight)
         IN  IF At(ds, edge.to) = INF /\ nd # INF
             THEN bsb_relax_first(edges, k + 1, d,
                                  [ds EXCEPT ![edge.to + 1] = nd],
                                  push(h, nd, edge.to),
                                  ok /\ nd >= h.last)
             ELSE bsb_relax_first(edges, k + 1, d, ds, h, ok)

\* the relaxation that lowers dist[edge.to] without pq.push(nd, edge.to)
RECURSIVE bsb_relax_nopush(_, _, _, _, _, _)
bsb_relax_nopush(edges, k, d, ds, h, ok) ==
    IF k > Len(edges) THEN [dist |-> ds, pq |-> h, mono |-> ok]
    ELSE LET edge == edges[k]
             nd == AddWrap(d, edge.weight)
         IN  IF nd < At(ds, edge.to)
             THEN bsb_relax_nopush(edges, k + 1, d,
                                   [ds EXCEPT ![edge.to + 1] = nd], h, ok)
             ELSE bsb_relax_nopush(edges, k + 1, d, ds, h, ok)

\* the for loop over graph[u], from edge k on; ok records whether every
\* key pushed was >= last at the time of the push
RECURSIVE bsb_relax(_, _, _, _, _, _)
bsb_relax(edges, k, d, ds, h, ok) ==
    IF k > Len(edges) THEN [dist |-> ds, pq |-> h, mono |-> ok]
    ELSE LET edge == edges[k]
             nd == AddWrap(d, edge.weight)
         IN  IF nd < At(ds, edge.to)
             THEN bsb_relax(edges, k + 1, d,
                            [ds EXCEPT ![edge.to + 1] = nd],
                            push(h, nd, edge.to),
                            ok /\ nd >= h.last)
             ELSE bsb_relax(edges, k + 1, d, ds, h, ok)

\* ----------------------------------------------------------- verify_results
\* the scan that keeps going and so reports the last mismatch
RECURSIVE FirstMismatch_last(_, _, _)
FirstMismatch_last(va, vb, i) ==
    IF i >= Len(va) THEN -1
    ELSE LET later == FirstMismatch_last(va, vb, i + 1)
         IN  IF later # -1 THEN later
             ELSE IF At(va, i) # At(vb, i) THEN i ELSE -1

RECURSIVE FirstMismatch(_, _, _)
FirstMismatch(va, vb, i) ==
    IF i >= Len(va) THEN -1
    ELSE IF At(va, i) # At(vb, i) THEN i
    ELSE FirstMismatch(va, vb, i + 1)

verify_results(va, vb) ==
    IF Len(va) # Len(vb)
    THEN [kind |-> "size_error"]
    ELSE LET i == FirstMismatch(va, vb, 0)
         IN  IF i = -1 THEN [kind |-> "returned"]
             ELSE [kind |-> "mismatch", node |-> i,
                   first |-> At(va, i), second |-> At(vb, i)]

\* ------------------------------------------------------------------- main
\* The state main is in once the graph is loaded: every Graph the engines
\* accept (read_graph_from_file yields those whose last node has an edge),
\* and every source, valid or just outside [0, N).
Unused ==
    /\ dist = <<>>
    /\ pq_d = EmptyBag
    /\ pq = NewRadixHeap
    /\ dijkstra_result = <<>>
    /\ breaking_result = <<>>
    /\ a = <<>>
    /\ b = <<>>
    /\ outcome = NoOutcome
    /\ res = NoEntry
    /\ lastOp = "new"
    /\ mono = TRUE
    /\ relocated = FALSE
    /\ expanded = <<>>
    /\ pushes = 0

MainInit(maxN, maxE) ==
    /\ \E n \in 1 .. maxN :
          /\ \E es \in EdgeLists(n, Weights, maxE) :
                graph = BuildGraph(NewGraph(n), es, 1)
          /\ source \in -1 .. n
    /\ pc = "main"
    /\ Unused

EngineInit == MainInit(MaxNodes, MaxEdges)

\* the family explored where behaviours, not states, are checked
FairInit == MainInit(FairNodes, FairEdges)

\* graphs whose weights are all 2^(Width-1): two of them already wrap
WrapInit ==
    /\ \E es \in EdgeLists(WrapNodes, {HalfRange}, WrapEdges) :
          graph = BuildGraph(NewGraph(WrapNodes), es, 1)
    /\ source \in -1 .. WrapNodes
    /\ pc = "main"
    /\ Unused

\* the range check with source > node_count in place of source >= node_count
ValidSource_inclusive == source >= 0 /\ source <= Len(graph)

\* main, line 259, negated: source is a node id of the loaded graph
ValidSource == source >= 0 /\ source < Len(graph)

\* main, lines 259-261: the source is out of range
MainReject ==
    /\ pc = "main"
    /\ ~ValidSource
    /\ pc' = "exit1"
    /\ outcome' = [kind |-> "bad_source"]
    /\ UNCHANGED <<graph, source, dist, pq_d, pq, dijkstra_result,
                   breaking_result, a, b, res, lastOp, mono, relocated,
                   expanded, pushes>>

\* main calls dijkstra (through time_algorithm, one run): lines 76-82
DijkstraCall ==
    /\ pc = "main"
    /\ ValidSource
    /\ dist' = InitDist(graph, source)
    /\ pq_d' = SetToBag({<<0, source>>})
    /\ pc' = "dijkstra"
    /\ expanded' = [i \in 1 .. Len(graph) |-> <<>>]
    /\ pushes' = 1
    /\ UNCHANGED <<graph, source, pq, dijkstra_result, breaking_result,
                   a, b, outcome, res, lastOp, mono, relocated>>

\* one iteration of the while loop of dijkstra, lines 84-97
DijkstraStep ==
    /\ pc = "dijkstra"
    /\ pq_d # EmptyBag
    /\ LET p == top(pq_d)
           d == p[1]
           u == p[2]
           popped == pq_d (-) SetToBag({p})
       IN  IF stale(d, u, dist)
           THEN /\ pq_d' = popped
                /\ dist' = dist
                /\ UNCHANGED <<expanded, pushes>>
           ELSE LET r == dijkstra_relax(At(graph, u), 1, d, dist, popped)
                IN  /\ pq_d' = r.pq
                    /\ dist' = r.dist
                    /\ expanded' = [expanded EXCEPT ![u + 1] = Append(@, d)]
                    /\ pushes' = pushes + BagCardinality(r.pq)
                                         - BagCardinality(popped)
    /\ UNCHANGED <<graph, source, pc, pq, dijkstra_result, breaking_result,
                   a, b, outcome, res, lastOp, mono, relocated>>

\* dijkstra returns dist (line 99); main keeps it as dijkstra_result
DijkstraReturn ==
    /\ pc = "dijkstra"
    /\ pq_d = EmptyBag
    /\ dijkstra_result' = dist
    /\ pc' = "bsb_call"
    /\ UNCHANGED <<graph, source, dist, pq_d, pq, breaking_result,
                   a, b, outcome, res, lastOp, mono, relocated, expanded,
                   pushes>>

\* main calls breaking_sorting_barrier_sssp: lines 164-169
BsbCall ==
    /\ pc = "bsb_call"
    /\ dist' = InitDist(graph, source)
    /\ pq' = push(NewRadixHeap, 0, source)
    /\ mono' = (0 >= NewRadixHeap.last)
    /\ lastOp' = "push"
    /\ pc' = "bsb"
    /\ expanded' = [i \in 1 .. Len(graph) |-> <<>>]
    /\ pushes' = 1
    /\ UNCHANGED <<graph, source, pq_d, dijkstra_result, breaking_result,
                   a, b, outcome, res, relocated>>

\* the body of the while loop, lines 172-183, r being what pq.pop() did
\* and op the name the step is recorded under; a logic_error thrown by pop
\* leaves the function and is caught in main (lines 273-276)
BsbIter(r, op) ==
    /\ LET d == r.res[1]
           u == r.res[2]
       IN  /\ res' = IF r.thrown THEN res ELSE r.res
           /\ relocated' = r.relocated
           /\ IF r.thrown
              THEN /\ pq' = r.heap
                   /\ lastOp' = "pop_threw"
                   /\ pc' = "exit1"
                   /\ outcome' = [kind |-> "logic_error"]
                   /\ UNCHANGED <<dist, mono, expanded, pushes>>
              ELSE /\ lastOp' = op
                   /\ UNCHANGED <<pc, outcome>>
                   /\ IF stale(d, u, dist)
                      THEN /\ pq' = r.heap
                           /\ UNCHANGED <<dist, mono, expanded, pushes>>
                      ELSE LET x == bsb_relax(At(graph, u), 1, d, dist,
                                              r.heap, mono)
                           IN  /\ pq' = x.pq
                               /\ dist' = x.dist
                               /\ mono' = x.mono
                               /\ expanded' = [expanded EXCEPT
                                                 ![u + 1] = Append(@, d)]
                               /\ pushes' = pushes + size(x.pq)
                                                    - size(r.heap)
    /\ UNCHANGED <<graph, source, pq_d, dijkstra_result, breaking_result,
                   a, b>>

\* one iteration of the while loop, lines 171-183
BsbStep ==
    /\ pc = "bsb"
    /\ ~empty(pq)
    /\ BsbIter(pop(pq), "pop")

\* the function returns dist (line 185); main keeps it as breaking_result
BsbReturn ==
    /\ pc = "bsb"
    /\ empty(pq)
    /\ breaking_result' = dist
    /\ pc' = "verify"
    /\ UNCHANGED <<graph, source, dist, pq_d, pq, dijkstra_result,
                   a, b, outcome, res, lastOp, mono, relocated, expanded,
                   pushes>>

\* main, lines 270-276: verify_results on the two results, then exit
Verify ==
    /\ pc = "verify"
    /\ a' = dijkstra_result
    /\ b' = breaking_result
    /\ outcome' = verify_results(dijkstra_result, breaking_result)
    /\ pc' = IF outcome'.kind = "returned" THEN "exit0" ELSE "exit1"
    /\ UNCHANGED <<graph, source, dist, pq_d, pq, dijkstra_result,
                   breaking_result, res, lastOp, mono, relocated, expanded,
                   pushes>>

EngineNext ==
    \/ MainReject
    \/ DijkstraCall
    \/ DijkstraStep
    \/ DijkstraReturn
    \/ BsbCall
    \/ BsbStep
    \/ BsbReturn
    \/ Verify

\* the default specification: main on every small graph
Spec == EngineInit /\ [][EngineNext]_vars

\* the same program; being sequential code, it keeps running while it can
FairSpec == FairInit /\ [][EngineNext]_vars /\ WF_vars(EngineNext)

\* main on the half-range graphs
WrapSpec == WrapInit /\ [][EngineNext]_vars

\* main on two-weight graphs with one edge more: graphs where a node that
\* has outgoing edges is in the queue twice
StaleInit ==
    /\ \E es \in EdgeLists(StaleNodes, {1, HalfRange}, StaleEdges) :
          graph = BuildGraph(NewGraph(StaleNodes), es, 1)
    /\ source \in -1 .. StaleNodes
    /\ pc = "main"
    /\ Unused

StaleSpec == StaleInit /\ [][EngineNext]_vars

\* ------------------------------------------------- any tie-break in pop
\* buckets[0] as pop finds it once its call of relocate, if any, is over
Bucket0AtPop(h) ==
    IF h.buckets[0] = <<>> THEN relocate(h).heap.buckets[0]
    ELSE h.buckets[0]

\* pop() taking position j of buckets[0] where the source takes back();
\* the entries of buckets[0] all have the key last, so j is a tie-break
pop_at(h, j) ==
    LET r == IF h.buckets[0] = <<>> THEN relocate(h)
             ELSE [heap |-> h, thrown |-> FALSE]
    IN  IF r.thrown
        THEN [heap |-> r.heap, res |-> NoEntry, thrown |-> TRUE,
              relocated |-> TRUE]
        ELSE LET b0 == r.heap.buckets[0]
             IN  [heap |-> [r.heap EXCEPT
                              !.buckets[0] = SubSeq(b0, 1, j - 1)
                                               \o SubSeq(b0, j + 1, Len(b0)),
                              !.sz = @ - 1],
                  res |-> b0[j],
                  thrown |-> FALSE,
                  relocated |-> (h.buckets[0] = <<>>)]

\* one iteration of the while loop with any entry of buckets[0] popped
BsbStepAny ==
    /\ pc = "bsb"
    /\ ~empty(pq)
    /\ LET b0 == Bucket0AtPop(pq)
       IN  \E j \in 1 .. (IF b0 = <<>> THEN 1 ELSE Len(b0)) :
              BsbIter(pop_at(pq, j),
                      IF j < Len(b0) THEN "pop_inner" ELSE "pop")

\* graphs with weights 0 and 1 on one node more: several nodes get the
\* same distance, and no sum comes near INF
TieInit ==
    /\ \E es \in EdgeLists(MaxNodes + 1, {0, 1}, MaxEdges) :
          graph = BuildGraph(NewGraph(MaxNodes + 1), es, 1)
    /\ source \in -1 .. MaxNodes + 1
    /\ pc = "main"
    /\ Unused

TieNext ==
    \/ MainReject
    \/ DijkstraCall
    \/ DijkstraStep
    \/ DijkstraReturn
    \/ BsbCall
    \/ BsbStepAny
    \/ BsbReturn
    \/ Verify

\* main with the tie-break of pop left open
TieSpec == TieInit /\ [][TieNext]_vars

\* the whole of breaking_sorting_barrier_sssp as a function of the graph
\* and the source (lines 163-186); no vector when pop throws
RECURSIVE bsb_loop(_, _, _)
bsb_loop(g, ds, h) ==
    IF empty(h) THEN ds
    ELSE LET r == pop(h)
             d == r.res[1]
             u == r.res[2]
         IN  IF r.thrown THEN <<>>
             ELSE IF stale(d, u, ds) THEN bsb_loop(g, ds, r.heap)
             ELSE LET x == bsb_relax(At(g, u), 1, d, ds, r.heap, TRUE)
                  IN  bsb_loop(g, x.dist, x.pq)

breaking_sorting_barrier_sssp(g, s) ==
    bsb_loop(g, InitDist(g, s), push(NewRadixHeap, 0, s))

\* the RadixHeap driven on its own, and main: every use of pop
HeapOrMainInit == HeapInit \/ EngineInit

HeapOrMainNext == HeapNext \/ EngineNext

HeapOrMainSpec == HeapOrMainInit /\ [][HeapOrMainNext]_vars

\* --------------------------------------------- verify_results on its own
Vectors == UNION { [1 .. k -> Keys] : k \in 0 .. MaxLen }

VerifyInit ==
    /\ a \in Vectors
    /\ b \in Vectors
    /\ pc = "verify_call"
    /\ graph = <<>>
    /\ source = 0
    /\ dist = <<>>
    /\ pq_d = EmptyBag
    /\ pq = NewRadixHeap
    /\ dijkstra_result = <<>>
    /\ breaking_result = <<>>
    /\ outcome = NoOutcome
    /\ res = NoEntry
    /\ lastOp = "new"
    /\ mono = TRUE
    /\ relocated = FALSE
    /\ expanded = <<>>
    /\ pushes = 0

VerifyCall ==
    /\ pc = "verify_call"
    /\ outcome' = verify_results(a, b)
    /\ pc' = "verify_done"
    /\ UNCHANGED <<graph, source, dist, pq_d, pq, dijkstra_result,
                   breaking_result, a, b, res, lastOp, mono, relocated,
                   expanded, pushes>>

VerifyNext == VerifyCall

VerifySpec == VerifyInit /\ [][VerifyNext]_vars

\* ======================================================================
\* Reference notions the properties are stated with
\* ======================================================================
Min(S) == CHOOSE x \in S : \A y \in S : x <= y

\* bit length of d: 0 for 0, position of the highest set bit otherwise
RECURSIVE BitLength(_)
BitLength(d) == IF d = 0 THEN 0 ELSE 1 + BitLength(d \div 2)

\* how many entries a heap holds, and which
RECURSIVE CountFrom(_, _)
CountFrom(h, i) ==
    IF i >= NumBuckets THEN 0 ELSE Len(h.buckets[i]) + CountFrom(h, i + 1)

Stored(h) == CountFrom(h, 0)

Slots(h) ==
    UNION { {<<i, k>> : k \in 1 .. Len(h.buckets[i])} : i \in 0 .. NumBuckets - 1 }

EntryKeys(h) == { h.buckets[ik[1]][ik[2]][1] : ik \in Slots(h) }

AllBucketsEmpty(h) == \A i \in 0 .. NumBuckets - 1 : h.buckets[i] = <<>>

\* shortest path weights in unbounded integers (Bellman-Ford); NoPath
\* marks a node no path reaches
NoPath == 0 - 1

EdgeSlots(g) ==
    UNION { {<<u, k>> : k \in 1 .. Len(g[u])} : u \in 1 .. Len(g) }

EdgesInto(g, v) == { uk \in EdgeSlots(g) : g[uk[1]][uk[2]].to = v }

Round(D, g) ==
    [i \in 1 .. Len(g) |->
        LET c == { D[uk[1]] + g[uk[1]][uk[2]].weight :
                     uk \in { x \in EdgesInto(g, i - 1) : D[x[1]] # NoPath } }
                 \cup (IF D[i] = NoPath THEN {} ELSE {D[i]})
        IN  IF c = {} THEN NoPath ELSE Min(c)]

RECURSIVE Rounds(_, _, _)
Rounds(D, g, n) == IF n = 0 THEN D ELSE Rounds(Round(D, g), g, n - 1)

PathWeight(g, s) ==
    Rounds([i \in 1 .. Len(g) |-> IF i = s + 1 THEN 0 ELSE NoPath], g, Len(g))

\* no candidate formed from a shortest distance and an edge reaches INF
NoOverflow(g, s) ==
    LET D == PathWeight(g, s)
    IN  \A uk \in EdgeSlots(g) :
            D[uk[1]] # NoPath => D[uk[1]] + g[uk[1]][uk[2]].weight < INF

BothReturned == pc = "verify"

\* ======================================================================
\* Properties
\* ======================================================================

\* C1: for every graph and every valid source, the vector dijkstra returns
\* and the vector breaking_sorting_barrier_sssp returns are identical,
\* candidates d + w being formed with wraparound addition.
C1_SameDistances == BothReturned => dijkstra_result = breaking_result

C3_BucketInvariant ==
    \A ik \in Slots(pq) :
        ik[1] = BitLength(XOR(pq.buckets[ik[1]][ik[2]][1], pq.last))

\* after a pop that relocated, with last moved and entries in upper buckets
C3_Witness ==
    /\ lastOp = "pop"
    /\ pq.last > 0
    /\ \E i \in 2 .. NumBuckets - 1 : pq.buckets[i] # <<>>

\* C4: a pop returns an entry whose key is the least key in the heap (no key
\* left in the heap is below it), and the keys popped one after the other
\* never decrease.
C4_PopsMinimum ==
    /\ [](lastOp = "pop" => \A k \in EntryKeys(pq) : res[1] <= k)
    /\ [][(lastOp' = "pop" /\ res # NoEntry) => res'[1] >= res[1]]_vars

\* a pop returned a key above 0 while larger keys stay behind
C4_Witness ==
    /\ lastOp = "pop"
    /\ res[1] > 0
    /\ \E k \in EntryKeys(pq) : k > res[1]
    /\ \E k \in EntryKeys(pq) : k = res[1]

\* C5: every key breaking_sorting_barrier_sssp hands to RadixHeap::push is
\* >= last at the time of the call.
C5_PushesMonotone == mono

\* C6: a node no directed path from the source reaches holds INF in the
\* vector of dijkstra and in the vector of breaking_sorting_barrier_sssp.
C6_UnreachableInf ==
    BothReturned =>
        LET D == PathWeight(graph, source)
        IN  \A v \in 1 .. Len(graph) :
                D[v] = NoPath =>
                    dijkstra_result[v] = INF /\ breaking_result[v] = INF

\* both engines returned on a graph with an unreached node that has edges
C6_Witness ==
    /\ BothReturned
    /\ \E v \in 1 .. Len(graph) :
          PathWeight(graph, source)[v] = NoPath /\ graph[v] # <<>>

C8_UnderflowKeepsState ==
    [][(lastOp' \in {"pop", "pop_threw"} /\ empty(pq)) =>
          /\ lastOp' = "pop_threw"
          /\ res' = res
          /\ pq'.sz = 0
          /\ pq'.last = pq.last
          /\ AllBucketsEmpty(pq')]_vars

\* pop threw on a heap that had been used: last is no longer 0
C8_Witness == lastOp = "pop_threw" /\ pq.last > 0

\* C9: size() is the number of entries stored in the buckets, empty() holds
\* exactly when every bucket is empty, a push adds one to size() and a pop
\* (with its relocate) takes one off.
C9_SizeCounts ==
    /\ [](/\ size(pq) = Stored(pq)
          /\ empty(pq) <=> AllBucketsEmpty(pq))
    /\ [][/\ lastOp' = "push" => size(pq') = size(pq) + 1
          /\ lastOp' = "pop" => size(pq') = size(pq) - 1]_vars

\* a pop that had to relocate, leaving entries in the upper buckets only
C9_Witness ==
    /\ lastOp = "pop"
    /\ pq.last > 0
    /\ pq.buckets[0] = <<>>
    /\ size(pq) >= 2

\* C10: verify_results fails exactly when the vectors differ; for vectors
\* of equal length that differ it reports the lowest differing index with
\* the two values there; equal vectors make it return.
C10_VerifyResults ==
    pc = "verify_done" =>
        /\ (outcome.kind = "returned") <=> (a = b)
        /\ Len(a) # Len(b) => outcome.kind = "size_error"
        /\ (Len(a) = Len(b) /\ a # b) =>
              LET i == Min({j \in 1 .. Len(a) : a[j] # b[j]})
              IN  /\ outcome.kind = "mismatch"
                  /\ outcome.node = i - 1
                  /\ outcome.first = a[i]
                  /\ outcome.second = b[i]

\* a mismatch was reported for vectors that differ in more than one place
C10_Witness ==
    /\ pc = "verify_done"
    /\ outcome.kind = "mismatch"
    /\ Cardinality({j \in 1 .. Len(a) : a[j] # b[j]}) >= 2


\* C11: a source outside [0, node_count) is rejected: main goes from the
\* loaded graph straight to exit status 1 with the out-of-range error, and
\* neither engine has been started nor has verify_results been called: no
\* dist vector, no queue, no result and no comparison exists in any state
\* of such a run.
SourceInRange == source \in 0 .. Len(graph) - 1

C11_BadSourceRejected ==
    ~SourceInRange =>
        /\ pc \in {"main", "exit1"}
        /\ pc = "exit1" => outcome = [kind |-> "bad_source"]
        /\ pc = "main" => outcome = NoOutcome
        /\ dist = <<>> /\ pq_d = EmptyBag /\ pq = NewRadixHeap
        /\ dijkstra_result = <<>> /\ breaking_result = <<>>
        /\ a = <<>> /\ b = <<>>
        /\ lastOp = "new" /\ res = NoEntry
        /\ expanded = <<>> /\ pushes = 0

C11_Witness ==
    /\ pc = "exit1"
    /\ source = Len(graph)
    /\ Len(graph) = MaxNodes
    /\ outcome.kind = "bad_source"

\* C12: once an engine has initialised dist, dist[source] is 0 in every
\* state of its run and in the vector it returns, whatever the graph:
\* self-loops on the source, cycles through it, candidates that wrap.
C12_SourceZero ==
    /\ dist # <<>> => At(dist, source) = 0
    /\ dijkstra_result # <<>> => At(dijkstra_result, source) = 0
    /\ breaking_result # <<>> => At(breaking_result, source) = 0

\* a cycle through the source whose closing edge makes the candidate wrap
C12_Witness ==
    /\ BothReturned
    /\ \E uk \in EdgeSlots(graph) :
          LET edge == graph[uk[1]][uk[2]]
              du == breaking_result[uk[1]]
          IN  /\ edge.to = source
              /\ uk[1] # source + 1
              /\ du # INF
              /\ du + edge.weight >= Modulus
              /\ AddWrap(du, edge.weight) > 0
    /\ At(breaking_result, source) = 0


\* ----------------------------------------------------- relocate, observed
\* A pop that found bucket 0 empty went through relocate; the step shows the
\* heap before it and the heap after it less the entry returned.
LowestNonEmpty(h) == Min({ j \in 1 .. NumBuckets - 1 : h.buckets[j] # <<>> })

BucketKeys(h, i) == { h.buckets[i][k][1] : k \in 1 .. Len(h.buckets[i]) }

RECURSIVE SeqToBag(_)
SeqToBag(items) ==
    IF items = <<>> THEN EmptyBag
    ELSE SetToBag({Head(items)}) (+) SeqToBag(Tail(items))

\* the entries of buckets lo .. hi, with multiplicity
RECURSIVE EntryBag(_, _, _)
EntryBag(h, lo, hi) ==
    IF lo > hi THEN EmptyBag
    ELSE SeqToBag(h.buckets[lo]) (+) EntryBag(h, lo + 1, hi)

AllEntries(h) == EntryBag(h, 0, NumBuckets - 1)

\* a step that is a pop on a non-empty heap whose bucket 0 is empty
PopRelocates ==
    /\ lastOp' # "push"
    /\ Stored(pq) > 0
    /\ pq.buckets[0] = <<>>

\* C13: when a pop runs relocate on a non-empty heap whose bucket 0 is
\* empty (every push having had key >= last), relocate takes the lowest
\* non-empty bucket i > 0 and sets last to the least key of that bucket,
\* which is the least key of the whole heap; bucket 0 is then non-empty,
\* so the pop returns an entry (with that key) and relocates only once.
C13_RelocatePicksMinimum ==
    [][PopRelocates =>
          LET i == LowestNonEmpty(pq)
          IN  /\ relocated' /\ lastOp' = "pop"
              /\ pq'.last = Min(BucketKeys(pq, i))
              /\ pq'.last = Min(EntryKeys(pq))
              /\ relocate(pq).heap.buckets[0] # <<>>
              /\ res'[1] = pq'.last
              /\ Stored(pq') = Stored(pq) - 1]_vars

\* a relocate that had two non-empty buckets to choose from
C13_Witness ==
    /\ pc = "heap"
    /\ relocated /\ lastOp = "pop"
    /\ pq.buckets[0] = <<>> /\ pq.buckets[1] = <<>>
    /\ pq.buckets[NumBuckets - 1] # <<>>
    /\ res[1] = pq.last /\ pq.last > 0
    /\ \A k \in EntryKeys(pq) : k > pq.last

\* C14: a relocate of bucket i leaves bucket i empty and every bucket above
\* i as it was, puts every entry of bucket i into a bucket below i, and
\* keeps the multiset of entries: seen through the pop that called it, the
\* buckets below i hold afterwards exactly the old bucket i less the entry
\* returned, and the heap holds exactly the old entries less that entry.
C14_RelocateMovesDown ==
    [][PopRelocates =>
          LET i == LowestNonEmpty(pq)
              out == SetToBag({res'})
          IN  /\ pq'.buckets[i] = <<>>
              /\ \A j \in i + 1 .. NumBuckets - 1 :
                    pq'.buckets[j] = pq.buckets[j]
              /\ EntryBag(pq', 0, i - 1) (+) out = SeqToBag(pq.buckets[i])
              /\ AllEntries(pq') (+) out = AllEntries(pq)
              /\ AllEntries(relocate(pq).heap) = AllEntries(pq)]_vars

\* entries of the top bucket went to two lower buckets
C14_Witness ==
    /\ pc = "heap"
    /\ relocated /\ lastOp = "pop"
    /\ pq.buckets[0] # <<>> /\ pq.buckets[1] # <<>>
    /\ pq.buckets[NumBuckets - 1] = <<>>
    /\ Stored(pq) = MaxHeap - 1

\* C15: with every pushed key >= last, last is 0 at first, never goes
\* down, changes only in a pop that ran relocate, and right after every
\* successful pop is the key of the entry that pop returned.
C15_LastMonotone ==
    /\ pq.last = 0
    /\ [][pq'.last >= pq.last]_vars
    /\ [][pq'.last # pq.last => relocated' /\ lastOp' = "pop"]_vars
    /\ [](lastOp = "pop" => res[1] = pq.last)

\* last has reached the greatest key, with entries still stored
C15_Witness ==
    /\ pc = "heap"
    /\ relocated /\ lastOp = "pop"
    /\ pq.last = INF /\ res[1] = INF
    /\ Stored(pq) > 0


\* every edge of g has weight 0
ZeroWeights(g) == \A uk \in EdgeSlots(g) : g[uk[1]][uk[2]].weight = 0

\* C16: a pop that finds bucket 0 non-empty does not relocate: it takes
\* exactly one entry out of bucket 0 and returns it, lowers the count by
\* one, and leaves last and every other bucket as they were; so a run of
\* breaking_sorting_barrier_sssp on a graph whose weights are all 0 never
\* goes through relocate, and returns 0 for every node it reaches.
C16_PopWithoutRelocate ==
    /\ [][(pc = "heap" /\ lastOp' # "push" /\ pq.buckets[0] # <<>>) =>
            /\ ~relocated' /\ lastOp' = "pop"
            /\ Len(pq'.buckets[0]) = Len(pq.buckets[0]) - 1
            /\ SeqToBag(pq'.buckets[0]) (+) SetToBag({res'})
                  = SeqToBag(pq.buckets[0])
            /\ size(pq') = size(pq) - 1
            /\ pq'.last = pq.last
            /\ \A i \in 1 .. NumBuckets - 1 :
                  pq'.buckets[i] = pq.buckets[i]]_vars
    /\ [][(pc = "bsb" /\ pc' = "bsb" /\ pq.buckets[0] # <<>>) =>
            ~relocated' /\ pq'.last = pq.last]_vars
    /\ []((pc # "heap" /\ ZeroWeights(graph)) =>
            /\ ~relocated
            /\ lastOp # "pop_threw"
            /\ pq.last = 0
            /\ \A v \in 1 .. Len(breaking_result) :
                  breaking_result[v] \in {0, INF})

\* the run on a cycle of weight-0 edges has returned all zeros
C16_Witness ==
    /\ pc = "verify"
    /\ ZeroWeights(graph)
    /\ Cardinality(EdgeSlots(graph)) = MaxEdges
    /\ Len(graph) = MaxNodes
    /\ \A v \in 1 .. Len(graph) : breaking_result[v] = 0
    /\ pushes = Len(graph)
    /\ ~relocated


\* C17: in both engines a popped entry (d, u) with d # dist[u] is dropped
\* and nothing else happens: dist is unchanged, no edge of u is relaxed,
\* nothing is pushed, no error is raised and the loop goes on.
C17_StalePopSkipped ==
    /\ [][(pc = "dijkstra" /\ pq_d # EmptyBag) =>
            LET p == top(pq_d)
            IN  p[1] # At(dist, p[2]) =>
                  /\ pq_d' = pq_d (-) SetToBag({p})
                  /\ dist' = dist
                  /\ expanded' = expanded /\ pushes' = pushes
                  /\ pc' = "dijkstra" /\ outcome' = outcome]_vars
    /\ [][(pc = "bsb" /\ Stored(pq) > 0 /\ lastOp' = "pop"
             /\ res'[1] # At(dist, res'[2])) =>
            /\ AllEntries(pq') (+) SetToBag({res'}) = AllEntries(pq)
            /\ size(pq') = size(pq) - 1
            /\ dist' = dist
            /\ expanded' = expanded /\ pushes' = pushes
            /\ mono' = mono
            /\ pc' = "bsb" /\ outcome' = outcome]_vars

\* a stale entry (d, u) has just been popped from the RadixHeap, and u has
\* an edge whose candidate from d would have lowered a distance
C17_Witness ==
    /\ pc = "bsb" /\ lastOp = "pop"
    /\ res # NoEntry
    /\ res[1] # At(dist, res[2])
    /\ expanded[res[2] + 1] # <<>>
    /\ \E k \in 1 .. Len(At(graph, res[2])) :
          LET edge == At(graph, res[2])[k]
          IN  AddWrap(res[1], edge.weight) < At(dist, edge.to)


\* ------------------------------------------------- one order for the edges
EdgeLess(e, f) == e.to < f.to \/ (e.to = f.to /\ e.weight < f.weight)

RECURSIVE InsertEdge(_, _)
InsertEdge(e, edges) ==
    IF edges = <<>> THEN <<e>>
    ELSE IF EdgeLess(Head(edges), e)
         THEN <<Head(edges)>> \o InsertEdge(e, Tail(edges))
         ELSE <<e>> \o edges

RECURSIVE SortEdges(_)
SortEdges(edges) ==
    IF edges = <<>> THEN <<>>
    ELSE InsertEdge(Head(edges), SortEdges(Tail(edges)))

\* the graph with every adjacency list put in the one order
Canonical(g) == [u \in 1 .. Len(g) |-> SortEdges(g[u])]

RelaxedFrom(v, x) == \E k \in 1 .. Len(expanded[v + 1]) : expanded[v + 1][k] = x

\* C19: whenever the loop condition of either engine is evaluated, every
\* node v with dist[v] # INF either has had its outgoing edges relaxed from
\* the value dist[v], or has the entry (dist[v], v) in the queue.
C19_SettledOrQueued ==
    /\ pc = "dijkstra" =>
          \A v \in 0 .. Len(graph) - 1 :
              At(dist, v) # INF =>
                  \/ RelaxedFrom(v, At(dist, v))
                  \/ BagIn(<<At(dist, v), v>>, pq_d)
    /\ pc = "bsb" =>
          \A v \in 0 .. Len(graph) - 1 :
              At(dist, v) # INF =>
                  \/ RelaxedFrom(v, At(dist, v))
                  \/ BagIn(<<At(dist, v), v>>, AllEntries(pq))

\* a node already expanded whose distance was lowered afterwards waits in
\* the RadixHeap with its new distance, next to a node not yet expanded
C19_Witness ==
    /\ pc = "bsb"
    /\ \E v \in 0 .. Len(graph) - 1 :
          /\ expanded[v + 1] # <<>>
          /\ ~RelaxedFrom(v, At(dist, v))
          /\ BagIn(<<At(dist, v), v>>, AllEntries(pq))
    /\ \E v \in 0 .. Len(graph) - 1 : RelaxedFrom(v, At(dist, v))


\* C20: with non-negative weights and no overflow, a run of
\* breaking_sorting_barrier_sssp expands each node (pops it with
\* d = dist[u]) at most once and dist[u] keeps the value it was expanded
\* with; so the run makes at most 1 + (number of edges) pushes.
ExpandedOnce ==
    /\ \A v \in 0 .. Len(graph) - 1 :
          /\ Len(expanded[v + 1]) <= 1
          /\ expanded[v + 1] # <<>> => At(dist, v) = expanded[v + 1][1]
    /\ pushes <= 1 + Cardinality(EdgeSlots(graph))

C20_ExpandedOnce ==
    pc \in {"bsb", "verify"} =>
        (ExpandedOnce \/ ~NoOverflow(graph, source))

\* every edge caused a push: one entry per edge and the source's, one of
\* them stale, and every node expanded once
C20_Witness ==
    /\ pc = "verify"
    /\ NoOverflow(graph, source)
    /\ Cardinality(EdgeSlots(graph)) = MaxEdges
    /\ pushes = 1 + MaxEdges
    /\ \A v \in 0 .. Len(graph) - 1 : Len(expanded[v + 1]) = 1

====
